---- MODULE Spec2Model ----
(***************************************************************************)
(* A model of the university-research pipeline: the four workflows of      *)
(* main.py (scrape-and-store, resolve program URL, harvest content,        *)
(* summarize), the Summarizer's preprocessing and JSON repair, and the     *)
(* Entry Store of notion.py (create, paginated list, update).              *)
(*                                                                         *)
(* Texts are sequences of one-character strings.  Dictionaries are         *)
(* functions from key strings to values; an absent key is a key outside    *)
(* the function's domain.                                                  *)
(***************************************************************************)
EXTENDS Integers, Sequences, FiniteSets, TLC

VARIABLES
    \* scrape_university_list
    ranking_page,     \* the fetch outcome and the entity containers of the page
    store0,           \* the Entry Store's entries before the call
    store,            \* the Entry Store's entries (one per successful create)
    pc,               \* position of the handler: idle, loop, returned, error
    k,                \* index of the container the loop is at
    university_list,  \* the records accumulated for the response
    trace,            \* per processed container: what the loop did with it
    \* get_all_university_entries
    db_pages,         \* the store's entries as its chain of cursor-linked pages
    lpc,              \* position of list_all: loop, done
    all_results,
    has_more,
    start_cursor,
    query_log,        \* the start_cursor of every query issued, in order
    list_failed,      \* whether a query raised
    list_result,      \* the value returned
    \* create_program_summaries_with_gemini
    relevant_page_content,  \* the content the Summarizer is given
    sent_content,     \* the contents passed to the model
    response_text,    \* the text the model answers with
    model_calls,      \* number of generate_content calls issued
    summary_result,   \* what the call returned or raised
    spc,              \* position: start, prepared, done
    \* update_university_entry, called on its own
    update_args,      \* properties, content, markdown_path, and whether the file exists
    update_out,       \* which of the remote calls raise
    update_result,    \* the remote calls issued, the unlink, the return value
    upc,              \* position: call, done
    \* update_program_details, scrape_program_details, create_program_summaries
    workflow,         \* which of the three runs
    all_entries,      \* what get_all_university_entries returned
    wpc,              \* position: start, loop, sleep, done, escaped
    idx,              \* index of the entry the loop is at
    remote,           \* per entry, what the store holds of it
    artifacts,        \* the temporary files that exist locally
    created,          \* the temporary files created so far
    clock,            \* time elapsed in the sleeps
    wlog,             \* the external calls issued, with the time of each
    status,           \* the status returned
    \* scrape_university_details, called on its own
    detail_page,      \* the fetch outcome, the website entry and the tuition table
    detail_result,    \* the dictionary returned, and the exception caught
    dpc,              \* position: call, done
    \* two invocations of one workflow on one event loop
    cworkflow,        \* the workflow both invocations run
    centries,         \* the entries of the store
    shared,           \* per entry, the store's attachment and block sequence
    inv,              \* per invocation: position, index, its listing, failures
    running,          \* the invocation the event loop is executing, 0 for none
    sleepers,         \* the invocations inside asyncio.sleep, earliest first
    writes            \* the store writes that succeeded, in order

scrapeVars == <<ranking_page, store0, store, pc, k, university_list, trace>>

listVars == <<db_pages, lpc, all_results, has_more, start_cursor, query_log,
              list_failed, list_result>>

sumVars == <<relevant_page_content, sent_content, response_text, model_calls,
             summary_result, spc>>

updVars == <<update_args, update_out, update_result, upc>>

wfVars == <<workflow, all_entries, wpc, idx, remote, artifacts, created, clock,
            wlog, status>>

detVars == <<detail_page, detail_result, dpc>>

conVars == <<cworkflow, centries, shared, inv, running, sleepers, writes>>

vars == <<scrapeVars, listVars, sumVars, updVars, wfVars, detVars, conVars>>

-----------------------------------------------------------------------------
(* Bounds *)

\* The longest ranking page (number of entity containers).
MaxContainers == 2

\* The longest chain of pages the store presents, and the largest page.
MaxPages == 3

MaxPageSize == 2

\* The Summarizer's character ceiling (30000 in main.py:176), scaled down so
\* that contents longer than it can be enumerated, and the longest content.
Ceiling == 6

MaxContentLen == 8

\* The longest model response.
MaxResponseLen == 5

\* The most body rows of a tuition table.
MaxRows == 2

\* The most stored entries a workflow iterates over.
MaxEntries == 2

-----------------------------------------------------------------------------
(* Generic helpers *)

None == "None"

EmptyDict == [key \in {} |-> None]

\* dict.update(other): other's values win on key collision.
Update(d, other) ==
    [key \in DOMAIN d \cup DOMAIN other |->
        IF key \in DOMAIN other THEN other[key] ELSE d[key]]

\* dict.get(key, default)
Get(d, key, default) == IF key \in DOMAIN d THEN d[key] ELSE default

Min(S) == CHOOSE m \in S : \A n \in S : m <= n

Max(S) == CHOOSE m \in S : \A n \in S : m >= n

\* Number of leading characters of s that belong to S.
CountLeading(s, S) ==
    LET other == {i \in 1..Len(s) : s[i] \notin S}
    IN  IF other = {} THEN Len(s) ELSE Min(other) - 1

\* Number of trailing characters of s that belong to S.
CountTrailing(s, S) ==
    LET other == {i \in 1..Len(s) : s[i] \notin S}
    IN  IF other = {} THEN Len(s) ELSE Len(s) - Max(other)

Digits == {"0", "1", "2", "3", "4", "5", "6", "7", "8", "9"}

Whitespace == {" ", "\n"}

-----------------------------------------------------------------------------
(* scrape_university_list: the ranking page and its containers *)

\* re.sub(r'^\d+\.\s*', '', name_and_rank)
StripRank(text) ==
    LET d == CountLeading(text, Digits)
    IN  IF d >= 1 /\ d < Len(text) /\ text[d + 1] = "."
        THEN LET rest == SubSeq(text, d + 2, Len(text))
             IN  SubSeq(rest, CountLeading(rest, Whitespace) + 1, Len(rest))
        ELSE text

CountryNames == {"United States", "Canada"}

\* The nine regions of the filter in the loop.
AllowedStates ==
    {"Connecticut", "Maine", "Massachusetts", "New Hampshire", "Rhode Island",
     "Vermont", "New Jersey", "New York", "Pennsylvania"}

\* The geo links a location div can hold: each has a text, and an href that
\* matches geo/us/|geo/ca/ or not (every link matches geo/[a-z-]+/).
GeoLinks ==
    {<<>>,
     <<[country |-> TRUE, text |-> "United States"]>>,
     <<[country |-> TRUE, text |-> "United States"],
       [country |-> TRUE, text |-> "New York"]>>,
     <<[country |-> TRUE, text |-> "United States"],
       [country |-> TRUE, text |-> "Texas"]>>,
     <<[country |-> TRUE, text |-> "Canada"],
       [country |-> FALSE, text |-> "Canada"]>>}

NameTexts == {<<"1", ".", " ", "M">>, <<"Y">>}

InfoLists ==
    {<<>>, <<[key |-> "Acceptance Rate", dd |-> TRUE, value |-> "7%"],
             [key |-> "Founded", dd |-> FALSE, value |-> ""]>>}

\* Entity containers: with or without the h2, the name link inside it, the
\* link's href, the location div and the info list.
Containers ==
    {[h2 |-> FALSE, a |-> FALSE, href |-> FALSE, text |-> <<>>,
      div |-> TRUE, links |-> <<>>, info |-> <<>>]}
    \cup
    {[h2 |-> TRUE, a |-> FALSE, href |-> FALSE, text |-> <<>>,
      div |-> FALSE, links |-> <<>>, info |-> <<>>]}
    \cup
    {[h2 |-> TRUE, a |-> TRUE, href |-> h, text |-> t,
      div |-> TRUE, links |-> g, info |-> <<>>] :
        h \in BOOLEAN, t \in {<<"1", ".", " ", "M">>}, g \in GeoLinks}
    \cup
    {[h2 |-> TRUE, a |-> TRUE, href |-> h, text |-> t,
      div |-> FALSE, links |-> <<>>, info |-> i] :
        h \in BOOLEAN, t \in NameTexts, i \in InfoLists}

\* Steps 1 of the loop body, once container.find('h2') gave a heading:
\* the name (rank prefix removed) when the heading holds a link.
NameData(c) ==
    IF c.a THEN "name" :> StripRank(c.text) ELSE EmptyDict

\* edurank_url = name_tag.get('href'), None without a link or an href.
HasDetailLink(c) == c.a /\ c.href

\* state_tags[1].get_text(): the text of the second geo link.
SecondGeoText(c) == c.links[2].text

HasStateTag(c) == c.div /\ Len(c.links) > 1

\* Step 2: country from the first link whose href names a country, state from
\* the second geo link unless it is a country name.
GeoData(c) ==
    LET countries == {i \in 1..Len(c.links) : c.links[i].country}
        country == IF c.div /\ countries # {}
                   THEN "country" :> c.links[Min(countries)].text
                   ELSE EmptyDict
        state == IF HasStateTag(c) /\ SecondGeoText(c) \notin CountryNames
                 THEN "state" :> SecondGeoText(c)
                 ELSE EmptyDict
    IN  Update(country, state)

\* The filter of step 2: with the inverted test a plausible slip.
SkippedInverted(c) ==
    /\ HasStateTag(c)
    /\ SecondGeoText(c) \notin CountryNames
    /\ SecondGeoText(c) \in AllowedStates

\* The `continue` of step 2: a state was extracted and is not an allowed one.
Skipped(c) ==
    /\ HasStateTag(c)
    /\ SecondGeoText(c) \notin CountryNames
    /\ SecondGeoText(c) \notin AllowedStates

InfoKeys ==
    [key \in {"Acceptance Rate", "Average SAT", "Average ACT", "Net Price",
              "Receiving Aid", "Enrollment", "Founded"} |->
        CASE key = "Acceptance Rate" -> "acceptance_rate"
          [] key = "Average SAT" -> "average_sat"
          [] key = "Average ACT" -> "average_act"
          [] key = "Net Price" -> "net_price"
          [] key = "Receiving Aid" -> "receiving_aid"
          [] key = "Enrollment" -> "enrollment"
          [] key = "Founded" -> "founded"]

\* Step 3: every dt with a dd sibling and a known label sets its field.
RECURSIVE InfoData(_)
InfoData(info) ==
    IF info = <<>> THEN EmptyDict
    ELSE LET n == Len(info)
             dt == info[n]
             before == InfoData(SubSeq(info, 1, n - 1))
         IN  IF dt.dd /\ dt.key \in DOMAIN InfoKeys
             THEN Update(before, InfoKeys[dt.key] :> dt.value)
             ELSE before

\* university_data after steps 1 to 3 (the summary fields of the container).
SummaryData(c) == Update(Update(NameData(c), GeoData(c)), InfoData(c.info))

\* What scrape_university_details can return: {} on a failed request, else the
\* fields it found.
DetailResults ==
    {EmptyDict, "url" :> "site", Update("url" :> "site", "tuition" :> "fees")}

UniversityFields ==
    {"name", "url", "country", "state", "acceptance_rate", "average_sat",
     "average_act", "net_price", "receiving_aid", "enrollment", "founded",
     "tuition"}

\* University(**university_data) raises a validation error without a name.
UniversityRaises(data) == "name" \notin DOMAIN data

\* University(**university_data): absent fields default to None.
University(data) == [f \in UniversityFields |-> Get(data, f, None)]

\* The properties create_university_entry sends to notion.pages.create.
CreateProperties(data) ==
    [Name |-> Get(data, "name", <<>>),
     Website |-> Get(data, "url", None),
     State |-> Get(data, "state", "")]

\* A create that first looks for an entry of the same name, as
\* find_university_entry would allow, and adds nothing when there is one.
PersistUnlessNamed(entries, data) ==
    IF \E n \in 1..Len(entries) : entries[n].Name = CreateProperties(data).Name
    THEN entries
    ELSE Append(entries, CreateProperties(data))

\* notion.pages.create, when the store accepts it: a new page in the database,
\* whatever pages it already holds.
Persist(entries, data) == Append(entries, CreateProperties(data))

\* Whether the fetch ends in requests.exceptions.RequestException, with
\* raise_for_status forgotten: only a network error raises.
FetchRaisesNetworkOnly(outcome) == outcome = "network_error"

\* requests.get raises on a network error, raise_for_status on a
\* non-success HTTP status.
FetchRaises(outcome) == outcome # "ok"

Pages ==
    UNION {[1..n -> Containers] : n \in 0..MaxContainers}

\* The scrape handler not in use.
ScrapeIdle ==
    /\ ranking_page = [status |-> "ok", containers |-> <<>>]
    /\ store0 = <<>>
    /\ store = <<>>
    /\ pc = "unused"
    /\ k = 0
    /\ university_list = <<>>
    /\ trace = <<>>

\* list_all not in use.
ListIdle ==
    /\ db_pages = <<>>
    /\ lpc = "unused"
    /\ all_results = <<>>
    /\ has_more = FALSE
    /\ start_cursor = <<>>
    /\ query_log = <<>>
    /\ list_failed = FALSE
    /\ list_result = <<>>

\* The Summarizer not in use.
SummarizerIdle ==
    /\ relevant_page_content = <<>>
    /\ sent_content = <<>>
    /\ response_text = <<>>
    /\ model_calls = 0
    /\ summary_result = [kind |-> "none", value |-> [t |-> "none"], error |-> ""]
    /\ spc = "unused"

\* update_university_entry not called on its own.
UpdateIdle ==
    /\ update_args = [properties |-> None, content |-> None,
                      markdown_path |-> None, exists |-> FALSE]
    /\ update_out = [update |-> "ok", upload |-> "ok", attach |-> "ok",
                     append |-> "ok"]
    /\ update_result = [calls |-> <<>>, unlinked |-> FALSE, ret |-> FALSE]
    /\ upc = "unused"

\* No workflow over the stored entries in use.
WorkflowIdle ==
    /\ workflow = "none"
    /\ all_entries = <<>>
    /\ wpc = "unused"
    /\ idx = 0
    /\ remote = <<>>
    /\ artifacts = {}
    /\ created = {}
    /\ clock = 0
    /\ wlog = <<>>
    /\ status = None

\* scrape_university_details not called on its own.
DetailIdle ==
    /\ detail_page = [status |-> "ok",
                      website |-> [dt |-> FALSE, dd |-> FALSE, a |-> FALSE,
                                   href |-> None],
                      table |-> [present |-> FALSE, tbody |-> FALSE,
                                 rows |-> <<>>]]
    /\ detail_result = [value |-> EmptyDict, caught |-> "none"]
    /\ dpc = "unused"

\* No concurrent invocations.
ConcurrentIdle ==
    /\ cworkflow = "none"
    /\ centries = <<>>
    /\ shared = <<>>
    /\ inv = <<>>
    /\ running = 0
    /\ sleepers = <<>>
    /\ writes = <<>>

Init ==
    /\ ListIdle
    /\ SummarizerIdle
    /\ UpdateIdle
    /\ WorkflowIdle
    /\ DetailIdle
    /\ ConcurrentIdle
    /\ ranking_page \in
          [status : {"ok", "network_error", "http_error"}, containers : Pages]
    /\ store0 \in {<<>>, <<CreateProperties("name" :> <<"O">>)>>}
    /\ store = store0
    /\ pc = "idle"
    /\ k = 0
    /\ university_list = <<>>
    /\ trace = <<>>

\* requests.get, raise_for_status, BeautifulSoup and find_all.
FetchRankingPage ==
    /\ pc = "idle"
    /\ IF FetchRaises(ranking_page.status)
       THEN /\ pc' = "error"
            /\ k' = k
       ELSE /\ pc' = "loop"
            /\ k' = 1
    /\ UNCHANGED <<ranking_page, store0, store, university_list, trace>>
    /\ UNCHANGED <<listVars, sumVars, updVars, wfVars, detVars, conVars>>

\* One iteration of `for container in university_containers`.
ProcessContainer ==
    /\ pc = "loop"
    /\ k <= Len(ranking_page.containers)
    /\ LET c == ranking_page.containers[k]
       IN  IF ~c.h2
           THEN \* container.find('h2') is None: AttributeError, caught by the
                \* handler's `except Exception` around the whole loop
                /\ pc' = "error"
                /\ trace' = Append(trace, [kind |-> "raised", detail |-> FALSE,
                                           create |-> FALSE, accepted |-> FALSE,
                                           record |-> None])
                /\ UNCHANGED <<k, store, university_list>>
           ELSE IF Skipped(c)
           THEN /\ k' = k + 1
                /\ trace' = Append(trace, [kind |-> "skipped", detail |-> FALSE,
                                           create |-> FALSE, accepted |-> FALSE,
                                           record |-> None])
                /\ UNCHANGED <<pc, store, university_list>>
           ELSE \E details \in DetailResults, create_ok \in BOOLEAN :
                LET data == IF HasDetailLink(c)
                            THEN Update(SummaryData(c), details)
                            ELSE SummaryData(c)
                IN  /\ store' = IF create_ok THEN Persist(store, data) ELSE store
                    /\ IF UniversityRaises(data)
                       THEN /\ pc' = "error"
                            /\ trace' = Append(trace,
                                 [kind |-> "raised", detail |-> HasDetailLink(c),
                                  create |-> TRUE, accepted |-> create_ok,
                                  record |-> None])
                            /\ UNCHANGED <<k, university_list>>
                       ELSE /\ university_list' =
                                 Append(university_list, University(data))
                            /\ trace' = Append(trace,
                                 [kind |-> "emitted", detail |-> HasDetailLink(c),
                                  create |-> TRUE, accepted |-> create_ok,
                                  record |-> University(data)])
                            /\ k' = k + 1
                            /\ pc' = pc
    /\ UNCHANGED <<ranking_page, store0>>
    /\ UNCHANGED <<listVars, sumVars, updVars, wfVars, detVars, conVars>>

\* `return university_list` once the loop is over.
ReturnList ==
    /\ pc = "loop"
    /\ k > Len(ranking_page.containers)
    /\ pc' = "returned"
    /\ UNCHANGED <<ranking_page, store0, store, k, university_list, trace>>
    /\ UNCHANGED <<listVars, sumVars, updVars, wfVars, detVars, conVars>>

Next == FetchRankingPage \/ ProcessContainer \/ ReturnList

\* The number of times the handler was invoked again after it had returned.
Reruns == Cardinality({n \in 1..Len(trace) : trace[n].kind = "run"})

\* The ranking pages of the two-run check: containers with a name link, kept
\* (no state, or New York) or skipped (Texas), one of them with a detail link.
RerunContainers ==
    {c \in Containers :
        /\ c.a
        /\ c.info = <<>>
        /\ HasStateTag(c) \/ c.links = <<>>
        /\ HasStateTag(c) => SecondGeoText(c) \in {"New York", "Texas"}
        /\ c.href => c.text = <<"Y">>}

RerunPages ==
    UNION {[1..n -> RerunContainers] : n \in 0..MaxContainers}

\* Before the first of two invocations: the page can be fetched, and the
\* store is empty or already holds an entry named like one of the page's.
InitRerun ==
    /\ ListIdle
    /\ SummarizerIdle
    /\ UpdateIdle
    /\ WorkflowIdle
    /\ DetailIdle
    /\ ConcurrentIdle
    /\ ranking_page \in [status : {"ok"}, containers : RerunPages]
    /\ store0 \in {<<>>, <<CreateProperties("name" :> <<"M">>)>>}
    /\ store = store0
    /\ pc = "idle"
    /\ k = 0
    /\ university_list = <<>>
    /\ trace = <<>>

\* The handler is invoked a second time, the page and the store being what
\* the first invocation left: a fresh university_list, the loop from the top.
Rerun ==
    /\ pc = "returned"
    /\ Reruns = 0
    /\ pc' = "idle"
    /\ k' = 0
    /\ university_list' = <<>>
    /\ trace' = Append(trace, [kind |-> "run", detail |-> FALSE, create |-> FALSE,
                               accepted |-> FALSE, record |-> None])
    /\ UNCHANGED <<ranking_page, store0, store>>
    /\ UNCHANGED <<listVars, sumVars, updVars, wfVars, detVars, conVars>>

NextRerun == Next \/ Rerun

SpecRerun == InitRerun /\ [][NextRerun]_vars

Spec == Init /\ [][Next]_vars

-----------------------------------------------------------------------------
(* Properties of scrape_university_list *)

Fetched == ranking_page.status = "ok"

Finished == pc \in {"returned", "error"}

\* C1: whenever the fetch of the ranking page fails (network error or
\* non-success HTTP status), the call ends in the fatal error, no container is
\* processed, no create is issued and the store holds exactly the entries it
\* held before the call.
C1_FetchFailureIsFatal ==
    (~Fetched /\ pc # "idle") =>
        /\ pc = "error"
        /\ trace = <<>>
        /\ university_list = <<>>
        /\ store = store0

\* A failed fetch (HTTP error status) of a page that has containers, against a
\* store that already holds an entry, has ended in the error.
C1_Witness ==
    /\ ranking_page.status = "http_error"
    /\ ranking_page.containers # <<>>
    /\ store0 # <<>>
    /\ pc = "error"

\* C2: once the ranking page was fetched, no failure inside the loop aborts
\* the call: it returns, having processed every container.
C2_OnlyFetchAborts ==
    (Fetched /\ Finished) =>
        /\ pc = "returned"
        /\ Len(trace) = Len(ranking_page.containers)

\* C7: a container without a resolvable detail link gets no Detail Fetcher
\* call, raises no error, and the record emitted for it is the summary-only
\* record.
C7_NoLinkSummaryOnly ==
    \A i \in 1..Len(trace) :
        LET c == ranking_page.containers[i]
        IN  ~HasDetailLink(c) =>
                /\ ~trace[i].detail
                /\ trace[i].kind # "raised"
                /\ trace[i].kind = "emitted" =>
                       trace[i].record = University(SummaryData(c))

\* The state the geo links of a container yield, None when they yield none.
ExtractedState(c) == Get(GeoData(c), "state", None)

\* C8 (amended): a container whose extracted state is not one of the nine
\* allowed regions is skipped (not returned, no create issued); every record
\* returned or persisted that carries a state carries one of the nine; a
\* record without a state is retained.
C8_AllowListWhenStatePresent ==
    /\ \A i \in 1..Len(trace) :
          LET st == ExtractedState(ranking_page.containers[i])
          IN  (st # None /\ st \notin AllowedStates) =>
                  (trace[i].kind = "skipped" /\ ~trace[i].create)
    /\ \A i \in 1..Len(university_list) :
          university_list[i].state \in AllowedStates \cup {None}
    /\ \A i \in 1..Len(store) :
          store[i].State \in AllowedStates \cup {""}

\* A returned list where one container was skipped for its state and another
\* was emitted with an allowed state.
C8_Witness ==
    /\ pc = "returned"
    /\ \E i \in 1..Len(trace) :
          /\ trace[i].kind = "skipped"
          /\ ExtractedState(ranking_page.containers[i]) = "Texas"
    /\ \E i \in 1..Len(university_list) :
          university_list[i].state = "New York"
    /\ Len(store) > Len(store0)

\* C8 as stated: every record returned or persisted has a state value that is
\* one of the nine allowed regions.
C8_EveryRecordInAllowList ==
    pc = "returned" =>
    /\ \A i \in 1..Len(university_list) :
          university_list[i].state \in AllowedStates
    /\ \A i \in (Len(store0) + 1)..Len(store) :
          store[i].State \in AllowedStates

-----------------------------------------------------------------------------
(* get_all_university_entries: list_all over the store's paginated query *)

NoCursor == <<>>

\* Handles are numbered through the pages: page j of a store whose pages have
\* the given sizes.
RECURSIVE PagesOfSizes(_, _)
PagesOfSizes(sizes, first) ==
    IF sizes = <<>> THEN <<>>
    ELSE <<[h \in 1..Head(sizes) |-> first + h - 1]>>
         \o PagesOfSizes(Tail(sizes), first + Head(sizes))

Stores ==
    {PagesOfSizes(sizes, 1) :
        sizes \in UNION {[1..n -> 0..MaxPageSize] : n \in 1..MaxPages}}

\* notion.databases.query(start_cursor=cursor) against the chain of pages: no
\* cursor asks for the first page, the cursor <<j>> for page j.
QueryResponse(cursor) ==
    LET j == IF cursor = NoCursor THEN 1 ELSE cursor[1]
    IN  [results |-> db_pages[j],
         has_more |-> j < Len(db_pages),
         next_cursor |-> IF j < Len(db_pages) THEN <<j + 1>> ELSE NoCursor]

\* all_results with the page assigned instead of appended.
ExtendOverwrite(results, page) == page

\* all_results.extend(response.get("results", []))
Extend(results, page) == results \o page

\* start_cursor never advanced: every query asks for the first page.
NextCursorFirst(response) == NoCursor

\* start_cursor = response.get("next_cursor")
NextCursor(response) == response.next_cursor

\* The except clause handing back the pages fetched before the failure.
ExceptResultPartial(results) == results

\* `return []` in the except clause, whatever all_results holds.
ExceptResult(results) == <<>>

\* The state after `all_results = []; has_more = True; start_cursor = None`.
InitList ==
    /\ ScrapeIdle
    /\ SummarizerIdle
    /\ UpdateIdle
    /\ WorkflowIdle
    /\ DetailIdle
    /\ ConcurrentIdle
    /\ db_pages \in Stores
    /\ lpc = "loop"
    /\ all_results = <<>>
    /\ has_more = TRUE
    /\ start_cursor = NoCursor
    /\ query_log = <<>>
    /\ list_failed = FALSE
    /\ list_result = <<>>

\* One iteration of `while has_more`: the query answers, or raises and the
\* function returns [] from its except clause.
ListQuery ==
    /\ lpc = "loop"
    /\ has_more
    /\ query_log' = Append(query_log, start_cursor)
    /\ \E answers \in BOOLEAN :
          IF answers
          THEN LET response == QueryResponse(start_cursor)
               IN  /\ all_results' = Extend(all_results, response.results)
                   /\ has_more' = response.has_more
                   /\ start_cursor' = NextCursor(response)
                   /\ UNCHANGED <<lpc, list_failed, list_result>>
          ELSE /\ lpc' = "done"
               /\ list_failed' = TRUE
               /\ list_result' = ExceptResult(all_results)
               /\ UNCHANGED <<all_results, has_more, start_cursor>>
    /\ UNCHANGED <<db_pages, scrapeVars, sumVars, updVars, wfVars, detVars, conVars>>

\* `return all_results` when has_more is false.
ListReturn ==
    /\ lpc = "loop"
    /\ ~has_more
    /\ lpc' = "done"
    /\ list_result' = all_results
    /\ UNCHANGED <<db_pages, all_results, has_more, start_cursor, query_log,
                   list_failed, scrapeVars, sumVars, updVars, wfVars, detVars, conVars>>

NextList == ListQuery \/ ListReturn

SpecList == InitList /\ [][NextList]_vars

\* The function is one sequential loop: a step that can be taken is taken.
SpecListFair == SpecList /\ WF_vars(NextList)

RECURSIVE Flatten(_)
Flatten(pages) ==
    IF pages = <<>> THEN <<>> ELSE Head(pages) \o Flatten(Tail(pages))

Occurrences(seq, h) == Cardinality({i \in 1..Len(seq) : seq[i] = h})

\* C4: against a store that presents its entries as a chain of n >= 1
\* cursor-linked pages and answers every query, list_all returns the
\* concatenation of all pages in page order, every handle exactly once.
C4_ListAllIsConcatenation ==
    (lpc = "done" /\ ~list_failed) =>
        /\ list_result = Flatten(db_pages)
        /\ \A j \in 1..Len(db_pages) : \A h \in 1..Len(db_pages[j]) :
              Occurrences(list_result, db_pages[j][h]) = 1
        /\ Len(query_log) = Len(db_pages)

\* list_all has returned from a chain of at least three pages, none empty.
C4_Witness ==
    /\ lpc = "done"
    /\ ~list_failed
    /\ Len(db_pages) >= 3
    /\ \A j \in 1..Len(db_pages) : Len(db_pages[j]) >= 1
    /\ Len(list_result) >= 3

-----------------------------------------------------------------------------
(* create_program_summaries_with_gemini: preprocessing *)

\* Texts over a letter, a blank and a line break, up to MaxContentLen long.
Contents ==
    UNION {[1..n -> {"a", " ", "\n"}] : n \in 0..MaxContentLen}

\* str.split("\n\n"): the pieces between the separators found left to right.
RECURSIVE Split(_)
Split(text) ==
    LET seps == {i \in 1..(Len(text) - 1) : text[i] = "\n" /\ text[i + 1] = "\n"}
    IN  IF seps = {} THEN <<text>>
        ELSE <<SubSeq(text, 1, Min(seps) - 1)>>
             \o Split(SubSeq(text, Min(seps) + 2, Len(text)))

\* str.strip()
Strip(text) ==
    LET lead == CountLeading(text, Whitespace)
    IN  IF lead = Len(text) THEN <<>>
        ELSE SubSeq(text, lead + 1, Len(text) - CountTrailing(text, Whitespace))

\* The break test with the accumulated text left out of the sum.
ExceedsParagraphOnly(chunked_content, p) == Len(p) + 2 > Ceiling

\* The break test without the separator that follows the paragraph.
ExceedsNoSeparator(chunked_content, p) ==
    Len(chunked_content) + Len(p) > Ceiling

\* len(chunked_content) + len(p) + 2 > 30000
Exceeds(chunked_content, p) == Len(chunked_content) + Len(p) + 2 > Ceiling

\* for p in paragraphs: break when the paragraph does not fit, else
\* chunked_content += p + "\n\n"
RECURSIVE Chunk(_, _)
Chunk(paragraphs, chunked_content) ==
    IF paragraphs = <<>> THEN chunked_content
    ELSE IF Exceeds(chunked_content, Head(paragraphs)) THEN chunked_content
    ELSE Chunk(Tail(paragraphs),
               chunked_content \o Head(paragraphs) \o <<"\n", "\n">>)

\* The text handed to the model for a content.
Truncate(content) ==
    IF Len(content) > Ceiling
    THEN Strip(Chunk(Split(content), <<>>))
    ELSE content

-----------------------------------------------------------------------------
(* create_program_summaries_with_gemini: the model call and json.loads *)

\* Model responses: brackets, commas, a digit, a blank and a stray letter.
Responses ==
    UNION {[1..n -> {"[", "]", ",", "1", " ", "g"}] : n \in 0..MaxResponseLen}

\* Index of the first character at or after i that is not whitespace.
RECURSIVE SkipWs(_, _)
SkipWs(text, i) ==
    IF i <= Len(text) /\ text[i] \in Whitespace THEN SkipWs(text, i + 1) ELSE i

\* End of the run of digits that starts at i.
RECURSIVE SkipDigits(_, _)
SkipDigits(text, i) ==
    IF i <= Len(text) /\ text[i] \in Digits THEN SkipDigits(text, i + 1) ELSE i

ParseFailure == [ok |-> FALSE, value |-> [t |-> "none"], next |-> 0]

\* The JSON grammar restricted to numbers and arrays: a value starting at i,
\* and the elements of an array after its "[" or a ",".
RECURSIVE ParseValue(_, _)
RECURSIVE ParseElements(_, _, _)
ParseValue(text, i) ==
    IF i > Len(text) THEN ParseFailure
    ELSE IF text[i] \in Digits
    THEN [ok |-> TRUE,
          value |-> [t |-> "number", digits |-> SubSeq(text, i, SkipDigits(text, i) - 1)],
          next |-> SkipDigits(text, i)]
    ELSE IF text[i] = "["
    THEN LET j == SkipWs(text, i + 1)
         IN  IF j <= Len(text) /\ text[j] = "]"
             THEN [ok |-> TRUE, value |-> [t |-> "array", items |-> <<>>],
                   next |-> j + 1]
             ELSE ParseElements(text, j, <<>>)
    ELSE ParseFailure

ParseElements(text, i, items) ==
    LET item == ParseValue(text, i)
    IN  IF ~item.ok THEN ParseFailure
        ELSE LET j == SkipWs(text, item.next)
                 all == Append(items, item.value)
             IN  IF j > Len(text) THEN ParseFailure
                 ELSE IF text[j] = "]"
                 THEN [ok |-> TRUE, value |-> [t |-> "array", items |-> all],
                       next |-> j + 1]
                 ELSE IF text[j] = ","
                 THEN ParseElements(text, SkipWs(text, j + 1), all)
                 ELSE ParseFailure

\* json.loads(text): one value, whitespace around it, nothing after it;
\* ok is FALSE where json.loads raises JSONDecodeError.
JsonLoads(text) ==
    LET r == ParseValue(text, SkipWs(text, 1))
    IN  IF r.ok /\ SkipWs(text, r.next) > Len(text)
        THEN [ok |-> TRUE, value |-> r.value]
        ELSE [ok |-> FALSE, value |-> [t |-> "none"]]

\* str.find and str.rfind of one character: 0-based, -1 when absent.
Find(text, ch) ==
    LET at == {i \in 1..Len(text) : text[i] = ch}
    IN  IF at = {} THEN -1 ELSE Min(at) - 1

Rfind(text, ch) ==
    LET at == {i \in 1..Len(text) : text[i] = ch}
    IN  IF at = {} THEN -1 ELSE Max(at) - 1

StartIdx(text) == Find(text, "[")

\* The end index without the + 1.
EndIdxNoPlusOne(text) == Rfind(text, "]")

\* end_idx = response.text.rfind(']') + 1
EndIdx(text) == Rfind(text, "]") + 1

Returned(value) == [kind |-> "returned", value |-> value, error |-> ""]

Raised(error) == [kind |-> "raised", value |-> [t |-> "none"], error |-> error]

\* The try block around json.loads(response.text) and its repair.
ParseResponse(text) ==
    IF JsonLoads(text).ok THEN Returned(JsonLoads(text).value)
    ELSE IF StartIdx(text) >= 0 /\ EndIdx(text) > StartIdx(text)
    THEN LET json_text == SubSeq(text, StartIdx(text) + 1, EndIdx(text))
         IN  IF JsonLoads(json_text).ok
             THEN Returned(JsonLoads(json_text).value)
             ELSE Raised("ValueError: Could not extract valid JSON")
    ELSE Raised("ValueError: Could not locate JSON array")

InitSummarizer ==
    /\ sent_content = <<>>
    /\ model_calls = 0
    /\ summary_result = [kind |-> "none", value |-> [t |-> "none"], error |-> ""]
    /\ spc = "start"

\* Contents of every shape, answered with an empty array.
InitTruncate ==
    /\ ScrapeIdle
    /\ ListIdle
    /\ UpdateIdle
    /\ WorkflowIdle
    /\ DetailIdle
    /\ ConcurrentIdle
    /\ InitSummarizer
    /\ relevant_page_content \in Contents
    /\ response_text = <<"[", "]">>

\* A short content, answered with every response.
InitParse ==
    /\ ScrapeIdle
    /\ ListIdle
    /\ UpdateIdle
    /\ WorkflowIdle
    /\ DetailIdle
    /\ ConcurrentIdle
    /\ InitSummarizer
    /\ relevant_page_content = <<"a">>
    /\ response_text \in Responses

\* Lines 176-184: the content is cut to the ceiling.
Preprocess ==
    /\ spc = "start"
    /\ sent_content' = Truncate(relevant_page_content)
    /\ spc' = "prepared"
    /\ UNCHANGED <<relevant_page_content, response_text, model_calls,
                   summary_result, scrapeVars, listVars, updVars, wfVars, detVars, conVars>>

\* Lines 320-354: one generate_content call, which raises or answers with
\* response_text; the answer is parsed, repaired or given up.
GenerateAndParse ==
    /\ spc = "prepared"
    /\ model_calls' = model_calls + 1
    /\ \E answers \in BOOLEAN :
          summary_result' = IF answers THEN ParseResponse(response_text)
                            ELSE Raised("APIError")
    /\ spc' = "done"
    /\ UNCHANGED <<relevant_page_content, sent_content, response_text,
                   scrapeVars, listVars, updVars, wfVars, detVars, conVars>>

NextSummarizer == Preprocess \/ GenerateAndParse

SpecTruncate == InitTruncate /\ [][NextSummarizer]_vars

SpecParse == InitParse /\ [][NextSummarizer]_vars

-----------------------------------------------------------------------------
(* Properties of the Summarizer *)

\* text[1..n] = prefix
IsPrefix(prefix, text) ==
    Len(prefix) <= Len(text) /\ SubSeq(text, 1, Len(prefix)) = prefix

\* The first n paragraphs with the separator between them.
RECURSIVE JoinParagraphs(_, _)
JoinParagraphs(paragraphs, n) ==
    IF n = 0 THEN <<>>
    ELSE IF n = 1 THEN paragraphs[1]
    ELSE JoinParagraphs(paragraphs, n - 1) \o <<"\n", "\n">> \o paragraphs[n]

TooLong == Len(relevant_page_content) > Ceiling

\* C5 as stated: for a content longer than the ceiling, the text sent is a
\* prefix of the content made of a whole number n >= 0 of complete paragraphs,
\* at most the ceiling long.
C5_WholeParagraphPrefix ==
    (spc # "start" /\ TooLong) =>
        LET paragraphs == Split(relevant_page_content)
        IN  /\ Len(sent_content) <= Ceiling
            /\ IsPrefix(sent_content, relevant_page_content)
            /\ \E n \in 0..Len(paragraphs) :
                  sent_content = JoinParagraphs(paragraphs, n)

\* C5 (amended): for a content longer than the ceiling, the text sent is the
\* whitespace-stripped form of a prefix of the content made of a whole number
\* n >= 0 of complete paragraphs, and is at most the ceiling long.
C5_StrippedWholeParagraphPrefix ==
    (spc # "start" /\ TooLong) =>
        LET paragraphs == Split(relevant_page_content)
        IN  /\ Len(sent_content) <= Ceiling
            /\ \E n \in 0..Len(paragraphs) :
                  LET prefix == JoinParagraphs(paragraphs, n)
                  IN  /\ IsPrefix(prefix, relevant_page_content)
                      /\ Len(prefix) <= Ceiling
                      /\ sent_content = Strip(prefix)

\* A content of three paragraphs, longer than the ceiling, was cut after its
\* second paragraph.
C5_Witness ==
    /\ spc = "prepared"
    /\ TooLong
    /\ Len(Split(relevant_page_content)) = 3
    /\ sent_content = JoinParagraphs(Split(relevant_page_content), 2)
    /\ Len(sent_content) >= 4

\* C6: for a response that does not parse as JSON, the Summarizer returns the
\* parsed substring from the first '[' to the last ']' when that substring
\* exists and parses, and fails with the parsing error in every other case;
\* the model is never called a second time.
C6_RepairOrFail ==
    /\ model_calls <= 1
    /\ (spc = "done" /\ summary_result.error # "APIError"
          /\ ~JsonLoads(response_text).ok) =>
        LET opens == {i \in 1..Len(response_text) : response_text[i] = "["}
            closes == {i \in 1..Len(response_text) : response_text[i] = "]"}
            sliced == opens # {} /\ closes # {} /\ Max(closes) > Min(opens)
        IN  /\ model_calls = 1
            /\ IF sliced /\ JsonLoads(SubSeq(response_text, Min(opens), Max(closes))).ok
               THEN summary_result =
                      Returned(JsonLoads(SubSeq(response_text, Min(opens),
                                                Max(closes))).value)
               ELSE /\ summary_result.kind = "raised"
                    /\ summary_result.error \in
                          {"ValueError: Could not extract valid JSON",
                           "ValueError: Could not locate JSON array"}

\* A response with garbage around a one-element array was repaired to it.
C6_Witness ==
    /\ spc = "done"
    /\ response_text = <<"g", "[", "1", "]", "g">>
    /\ summary_result =
          Returned([t |-> "array",
                    items |-> <<[t |-> "number", digits |-> <<"1">>]>>])

-----------------------------------------------------------------------------
(* update_university_entry *)

\* Which of the remote calls of one update raise.
UpdateOutcomes ==
    [update : {"ok", "raise"}, upload : {"ok", "raise"},
     attach : {"ok", "raise"}, append : {"ok", "raise"}]

\* The arguments: properties is None, {} or a patch; content is None, [] or
\* blocks; markdown_path is None or a path, whose file exists or not.
UpdateArguments ==
    [properties : {None, "empty", "patch"}, content : {None, "empty", "blocks"},
     markdown_path : {None, "path"}, exists : BOOLEAN]

\* The body of update_university_entry: the remote calls it issues in order,
\* whether it unlinks the file, and its return value.  A call that raises
\* ends the try block: the except clause returns False.
UpdateEntry(properties, content, markdown_path, exists, out) ==
    LET patch == properties \notin {None, "empty"}
        c1 == IF patch THEN <<"pages.update:properties">> ELSE <<>>
        f1 == patch /\ out.update = "raise"
        file == ~f1 /\ markdown_path # None /\ exists
        c2 == IF ~file THEN c1
              ELSE IF out.upload = "raise" THEN Append(c1, "upload")
              ELSE c1 \o <<"upload", "pages.update:Markdown">>
        f2 == f1 \/ (file /\ (out.upload = "raise" \/ out.attach = "raise"))
        blocks == ~f2 /\ content # None
        c3 == IF blocks THEN Append(c2, "blocks.children.append") ELSE c2
        f3 == f2 \/ (blocks /\ out.append = "raise")
    IN  [calls |-> c3, unlinked |-> file /\ ~f2, ret |-> ~f3]

InitUpdate ==
    /\ ScrapeIdle
    /\ ListIdle
    /\ SummarizerIdle
    /\ WorkflowIdle
    /\ DetailIdle
    /\ ConcurrentIdle
    /\ update_args \in UpdateArguments
    /\ update_out = [update |-> "ok", upload |-> "ok", attach |-> "ok",
                     append |-> "ok"]
    /\ update_result = [calls |-> <<>>, unlinked |-> FALSE, ret |-> FALSE]
    /\ upc = "call"

\* One call of update_university_entry, with the outcomes of its remote calls.
UpdateCall ==
    /\ upc = "call"
    /\ \E out \in UpdateOutcomes :
          /\ update_out' = out
          /\ update_result' =
                UpdateEntry(update_args.properties, update_args.content,
                            update_args.markdown_path, update_args.exists, out)
    /\ upc' = "done"
    /\ UNCHANGED <<update_args, scrapeVars, listVars, sumVars, wfVars, detVars, conVars>>

NextUpdate == UpdateCall

SpecUpdate == InitUpdate /\ [][NextUpdate]_vars

Issued(call) == \E n \in 1..Len(update_result.calls) : update_result.calls[n] = call

\* A facet's argument counts as provided the way the code tests it: a
\* non-empty patch, a path whose file exists, a content that is not None.
Provided ==
    [properties |-> update_args.properties \notin {None, "empty"},
     markdown_path |-> update_args.markdown_path # None /\ update_args.exists,
     content |-> update_args.content # None]

\* C9: each facet's remote write is issued if and only if that facet's
\* argument was provided, whatever the other arguments and the outcomes of
\* the other facets' writes.
C9_FacetsIndependent ==
    upc = "done" =>
        /\ Issued("pages.update:properties") <=> Provided.properties
        /\ Issued("upload") <=> Provided.markdown_path
        /\ Issued("blocks.children.append") <=> Provided.content

-----------------------------------------------------------------------------
(* update_program_details, scrape_program_details, create_program_summaries *)

\* Stored entries as the workflows read them: the Name title (missing, an
\* empty list, or a name), the Official Website url, the Markdown files.
EntryShapes ==
    [title : {"missing", "empty", "named"},
     url : {"none", "noscheme", "http"},
     markdown : {"none", "file"}]

EntryLists == UNION {[1..n -> EntryShapes] : n \in 0..MaxEntries}

\* name_property = properties.get("Name", {}).get("title", []), tested with
\* `if not name_property`.
NoName(entry) == entry.title \in {"missing", "empty"}

\* The except clause's own expression,
\* entry.get("properties", {}).get("Name", {}).get("title", [{}])[0],
\* raises IndexError when the title is an empty list.
HandlerRaises(entry) == entry.title = "empty"

\* re.search(r'https?://(?:www\.)?([^/]+)', official_url)
DomainMatch(url) == url = "http"

SleepHarvest == 60

SleepSummarize == 10

Event(op, at) == [op |-> op, entry |-> idx, at |-> at]

\* The state when a workflow is entered, all_entries being what
\* get_all_university_entries returned.
InitWorkflows ==
    /\ ScrapeIdle
    /\ ListIdle
    /\ SummarizerIdle
    /\ UpdateIdle
    /\ DetailIdle
    /\ ConcurrentIdle
    /\ workflow \in {"resolve", "harvest", "summarize"}
    /\ all_entries \in EntryLists
    /\ wpc = "start"
    /\ idx = 0
    /\ remote = [n \in 1..Len(all_entries) |->
                    [website |-> all_entries[n].url,
                     markdown |-> all_entries[n].markdown, blocks |-> 0]]
    /\ artifacts = {}
    /\ created = {}
    /\ clock = 0
    /\ wlog = <<>>
    /\ status = None

\* `if not all_entries: return {"status": "complete", ...}`
WorkflowStart ==
    /\ wpc = "start"
    /\ IF all_entries = <<>>
       THEN /\ wpc' = "done"
            /\ status' = "complete"
            /\ idx' = idx
       ELSE /\ wpc' = "loop"
            /\ status' = status
            /\ idx' = 1
    /\ UNCHANGED <<workflow, all_entries, remote, artifacts, created, clock, wlog>>
    /\ UNCHANGED <<scrapeVars, listVars, sumVars, updVars, detVars, conVars>>

\* `continue`: on to the next entry.
Continue ==
    /\ idx' = idx + 1
    /\ wpc' = "loop"

\* One iteration of update_program_details.
ResolveEntry ==
    /\ workflow = "resolve"
    /\ wpc = "loop"
    /\ idx <= Len(all_entries)
    /\ LET entry == all_entries[idx]
       IN  IF NoName(entry) \/ entry.url = "none" \/ ~DomainMatch(entry.url)
           THEN Continue /\ UNCHANGED <<remote, wlog>>
           ELSE \E found \in BOOLEAN, out \in UpdateOutcomes :
                   LET upd == UpdateEntry("patch", None, None, FALSE, out)
                   IN  /\ Continue
                       /\ wlog' = IF found
                                  THEN wlog \o <<Event("search", clock),
                                                 Event("update", clock)>>
                                  ELSE Append(wlog, Event("search", clock))
                       /\ remote' = IF found /\ upd.ret
                                    THEN [remote EXCEPT ![idx].website = "program"]
                                    ELSE remote
    /\ UNCHANGED <<workflow, all_entries, artifacts, created, clock, status>>
    /\ UNCHANGED <<scrapeVars, listVars, sumVars, updVars, detVars, conVars>>

\* One iteration of scrape_program_details, up to its sleep.  The crawl ends
\* in the structured error (an exception, or no data) or in a temporary file
\* (files are numbered in the order of their creation), which
\* update_university_entry is given as markdown_path.
HarvestEntry ==
    /\ workflow = "harvest"
    /\ wpc = "loop"
    /\ idx <= Len(all_entries)
    /\ LET entry == all_entries[idx]
       IN  IF NoName(entry) \/ entry.url = "none"
           THEN /\ Continue
                /\ UNCHANGED <<remote, artifacts, created, wlog>>
           ELSE \E crawl \in {"exception", "empty", "data"}, out \in UpdateOutcomes :
                   IF crawl # "data"
                   THEN /\ Continue
                        /\ wlog' = Append(wlog, Event("crawl", clock))
                        /\ UNCHANGED <<remote, artifacts, created>>
                   ELSE LET temp_path == Cardinality(created) + 1
                            upd == UpdateEntry(None, None, "path", TRUE, out)
                        IN  /\ created' = created \cup {temp_path}
                            /\ artifacts' = IF upd.unlinked THEN artifacts
                                            ELSE artifacts \cup {temp_path}
                            /\ remote' = IF upd.unlinked
                                         THEN [remote EXCEPT ![idx].markdown = "file"]
                                         ELSE remote
                            /\ wlog' = wlog \o <<Event("crawl", clock),
                                                 [op |-> "update", entry |-> idx,
                                                  at |-> clock, path |-> temp_path,
                                                  ret |-> upd.ret]>>
                            /\ wpc' = "sleep"
                            /\ idx' = idx
    /\ UNCHANGED <<workflow, all_entries, clock, status>>
    /\ UNCHANGED <<scrapeVars, listVars, sumVars, updVars, detVars, conVars>>

\* One iteration of create_program_summaries, up to its sleep.  The download
\* and the Summarizer can raise; the except clause then logs the entry's name,
\* and its own expression raises when the title is an empty list.
SummarizeEntry ==
    /\ workflow = "summarize"
    /\ wpc = "loop"
    /\ idx <= Len(all_entries)
    /\ LET entry == all_entries[idx]
       IN  IF entry.markdown = "none"
           THEN /\ Continue
                /\ UNCHANGED <<remote, wlog>>
           ELSE \E download \in {"raise", "status_404", "ok"},
                   summary \in {"raise", "blocks"}, out \in UpdateOutcomes :
                   LET raised == download = "raise"
                                 \/ (download = "ok" /\ summary = "raise")
                       upd == UpdateEntry(None, "blocks", None, FALSE, out)
                   IN  /\ wlog' = IF download # "ok"
                                  THEN Append(wlog, Event("download", clock))
                                  ELSE IF summary = "raise"
                                  THEN wlog \o <<Event("download", clock),
                                                 Event("model", clock)>>
                                  ELSE wlog \o <<Event("download", clock),
                                                 Event("model", clock),
                                                 Event("update", clock)>>
                       /\ remote' = IF ~raised /\ download = "ok" /\ upd.ret
                                    THEN [remote EXCEPT ![idx].blocks = @ + 1]
                                    ELSE remote
                       /\ IF raised /\ HandlerRaises(entry)
                          THEN wpc' = "escaped" /\ idx' = idx
                          ELSE IF raised \/ download = "status_404"
                          THEN Continue
                          ELSE wpc' = "sleep" /\ idx' = idx
    /\ UNCHANGED <<workflow, all_entries, artifacts, created, clock, status>>
    /\ UNCHANGED <<scrapeVars, listVars, sumVars, updVars, detVars, conVars>>

\* `await asyncio.sleep(60)` or `await asyncio.sleep(10)` is over.
Wake ==
    /\ wpc = "sleep"
    /\ clock' = clock + (IF workflow = "harvest" THEN SleepHarvest
                         ELSE SleepSummarize)
    /\ Continue
    /\ UNCHANGED <<workflow, all_entries, remote, artifacts, created, wlog, status>>
    /\ UNCHANGED <<scrapeVars, listVars, sumVars, updVars, detVars, conVars>>

\* `return {"status": "success", ...}` after the loop.
WorkflowReturn ==
    /\ wpc = "loop"
    /\ idx > Len(all_entries)
    /\ wpc' = "done"
    /\ status' = "success"
    /\ UNCHANGED <<workflow, all_entries, idx, remote, artifacts, created,
                   clock, wlog>>
    /\ UNCHANGED <<scrapeVars, listVars, sumVars, updVars, detVars, conVars>>

NextWorkflows ==
    \/ WorkflowStart
    \/ ResolveEntry
    \/ HarvestEntry
    \/ SummarizeEntry
    \/ Wake
    \/ WorkflowReturn

SpecWorkflows == InitWorkflows /\ [][NextWorkflows]_vars

\* C3: in the three workflows over the stored entries, whatever the entries
\* carry, no exception escapes: the workflow visits every entry and returns
\* its completion status.
C3_NoExceptionEscapes ==
    /\ wpc # "escaped"
    /\ (wpc = "done" /\ all_entries # <<>>) =>
          (idx = Len(all_entries) + 1 /\ status = "success")

UpdatesOf(path) ==
    {n \in 1..Len(wlog) :
        wlog[n].op = "update" /\ "path" \in DOMAIN wlog[n] /\ wlog[n].path = path}

\* C10: every artifact created during a Harvest-content invocation is handed
\* to exactly one Entry Store update call, and once the workflow has returned
\* none of them still exists locally.
C10_NoArtifactLeft ==
    (workflow = "harvest" /\ wpc = "done") =>
        /\ \A path \in created : Cardinality(UpdatesOf(path)) = 1
        /\ artifacts = {}

\* The positions in the log of the calls of one kind, in the order they
\* were made.
CallsOf(op) == {n \in 1..Len(wlog) : wlog[n].op = op}

\* Two calls of one kind with no call of that kind between them.
Consecutive(op, m, n) ==
    /\ m \in CallsOf(op)
    /\ n \in CallsOf(op)
    /\ m < n
    /\ \A j \in CallsOf(op) : ~(m < j /\ j < n)

\* C11: within one Harvest-content invocation the delay of 60 elapses between
\* any two consecutive calls to the crawl service, and within one Summarize
\* invocation the delay of 10 elapses between any two consecutive calls to the
\* model, whatever the outcome of the earlier call.
C11_DelayBetweenCalls ==
    /\ workflow = "harvest" =>
          \A m, n \in 1..Len(wlog) :
              Consecutive("crawl", m, n) => wlog[n].at - wlog[m].at >= SleepHarvest
    /\ workflow = "summarize" =>
          \A m, n \in 1..Len(wlog) :
              Consecutive("model", m, n) => wlog[n].at - wlog[m].at >= SleepSummarize

\* The entries the call created: those after the ones the store held before.
CreatedEntries == SubSeq(store, Len(store0) + 1, Len(store))

\* C12: every record scrape-and-store returns or passes to create has its
\* name present; no store entry is ever created for a record whose name is
\* missing or empty.
C12_NameAlwaysPresent ==
    /\ \A n \in 1..Len(university_list) :
          university_list[n].name \notin {None, <<>>}
    /\ \A n \in 1..Len(CreatedEntries) : CreatedEntries[n].Name # <<>>

\* The containers of the page the loop retains: those the filter does not skip.
Retained ==
    {n \in 1..Len(ranking_page.containers) : ~Skipped(ranking_page.containers[n])}

\* The create calls issued so far, over all runs, as positions of the trace.
CreateCalls == {n \in 1..Len(trace) : trace[n].create}

\* C13: scrape-and-store never deduplicates: each run issues exactly one
\* create per retained entity whatever the store holds, so when the store
\* accepts every create, two runs against an unchanged page with N retained
\* entities leave 2N new entries, every name stored twice as often as the
\* page has it.
C13_AlwaysCreates ==
    pc = "returned" =>
        LET runs == Reruns + 1
        IN  /\ Cardinality(CreateCalls) = runs * Cardinality(Retained)
            /\ (\A n \in CreateCalls : trace[n].accepted) =>
                  /\ Len(CreatedEntries) = runs * Cardinality(Retained)
                  /\ \A name \in {<<"M">>, <<"Y">>} :
                        Cardinality({n \in 1..Len(CreatedEntries) :
                                        CreatedEntries[n].Name = name})
                        = runs * Cardinality({n \in Retained :
                              NameData(ranking_page.containers[n])["name"] = name})

\* Two runs have returned, the store accepted every create, the page has two
\* retained entities and the store already held an entry of the same name.
C13_Witness ==
    /\ pc = "returned"
    /\ Reruns = 1
    /\ Cardinality(Retained) = 2
    /\ store0 # <<>>
    /\ \A n \in CreateCalls : trace[n].accepted
    /\ Len(CreatedEntries) = 4

-----------------------------------------------------------------------------
(* Two invocations of scrape_program_details, or of create_program_summaries, *)
(* served by one event loop                                                    *)

\* The handlers are coroutines of one event loop and every call they make but
\* asyncio.sleep blocks it: an invocation runs from its start, or from the end
\* of a sleep, to its next sleep or its return before another one is executed.
Invocations == {1, 2}

\* Entries a workflow processes (a name, a url, a Markdown file) or skips.
ConcurrentShapes ==
    {entry \in EntryShapes :
        /\ entry.title = "named"
        /\ <<entry.url, entry.markdown>> \in {<<"http", "file">>, <<"none", "none">>}}

ConcurrentLists == UNION {[1..n -> ConcurrentShapes] : n \in 0..MaxEntries}

\* notion.blocks.children.append that leaves a page alone once it has blocks.
AppendBlocksOnce(stored, p) ==
    IF stored.blocks # <<>> THEN stored
    ELSE [stored EXCEPT !.blocks = Append(@, p)]

\* notion.blocks.children.append: the children are added after the blocks the
\* page has.  Blocks are named by the invocation that wrote them.
AppendBlocks(stored, p) == [stored EXCEPT !.blocks = Append(@, p)]

\* notion.pages.update of the Markdown property: its files become the one
\* uploaded file.
AttachFile(stored, p) == [stored EXCEPT !.attachment = p]

\* get_all_university_entries at the start of an invocation: the entries with
\* the Markdown files the store holds at that moment.
ListingOf ==
    [n \in 1..Len(centries) |->
        [centries[n] EXCEPT !.markdown = IF shared[n].attachment # 0
                                         THEN "file" ELSE @]]

InitConcurrent ==
    /\ ScrapeIdle
    /\ ListIdle
    /\ SummarizerIdle
    /\ UpdateIdle
    /\ WorkflowIdle
    /\ DetailIdle
    /\ cworkflow \in {"harvest", "summarize"}
    /\ centries \in ConcurrentLists
    /\ shared = [n \in 1..Len(centries) |-> [attachment |-> 0, blocks |-> <<>>]]
    /\ inv = [p \in Invocations |->
                [pc |-> "idle", idx |-> 0, entries |-> <<>>, failed |-> FALSE]]
    /\ running = 0
    /\ sleepers = <<>>
    /\ writes = <<>>

\* A request for the workflow is taken up by the idle event loop: the handler
\* lists the store, and returns at once when there is no entry.
Arrive(p) ==
    /\ inv[p].pc = "idle"
    /\ running = 0
    /\ IF ListingOf = <<>>
       THEN /\ inv' = [inv EXCEPT ![p].pc = "done"]
            /\ running' = running
       ELSE /\ inv' = [inv EXCEPT ![p].pc = "loop", ![p].idx = 1,
                                  ![p].entries = ListingOf]
            /\ running' = p
    /\ UNCHANGED <<cworkflow, centries, shared, sleepers, writes>>
    /\ UNCHANGED <<scrapeVars, listVars, sumVars, updVars, wfVars, detVars>>

\* One iteration of scrape_program_details by invocation p.
IterateHarvest(p) ==
    /\ cworkflow = "harvest"
    /\ running = p
    /\ inv[p].pc = "loop"
    /\ inv[p].idx <= Len(inv[p].entries)
    /\ LET e == inv[p].idx
           entry == inv[p].entries[e]
       IN  IF NoName(entry) \/ entry.url = "none"
           THEN /\ inv' = [inv EXCEPT ![p].idx = @ + 1]
                /\ UNCHANGED <<shared, running, sleepers, writes>>
           ELSE \E crawl \in {"exception", "empty", "data"}, out \in UpdateOutcomes :
                   IF crawl # "data"
                   THEN /\ inv' = [inv EXCEPT ![p].idx = @ + 1, ![p].failed = TRUE]
                        /\ UNCHANGED <<shared, running, sleepers, writes>>
                   ELSE LET upd == UpdateEntry(None, None, "path", TRUE, out)
                        IN  /\ shared' = IF upd.unlinked
                                         THEN [shared EXCEPT ![e] = AttachFile(@, p)]
                                         ELSE shared
                            /\ writes' = IF upd.unlinked
                                         THEN Append(writes, [by |-> p, entry |-> e])
                                         ELSE writes
                            /\ inv' = [inv EXCEPT ![p].pc = "sleep",
                                                  ![p].failed = @ \/ ~upd.ret]
                            /\ running' = 0
                            /\ sleepers' = Append(sleepers, p)
    /\ UNCHANGED <<cworkflow, centries>>
    /\ UNCHANGED <<scrapeVars, listVars, sumVars, updVars, wfVars, detVars>>

\* One iteration of create_program_summaries by invocation p.
IterateSummarize(p) ==
    /\ cworkflow = "summarize"
    /\ running = p
    /\ inv[p].pc = "loop"
    /\ inv[p].idx <= Len(inv[p].entries)
    /\ LET e == inv[p].idx
           entry == inv[p].entries[e]
       IN  IF entry.markdown = "none"
           THEN /\ inv' = [inv EXCEPT ![p].idx = @ + 1]
                /\ UNCHANGED <<shared, running, sleepers, writes>>
           ELSE \E download \in {"raise", "status_404", "ok"},
                   summary \in {"raise", "blocks"}, out \in UpdateOutcomes :
                   LET raised == download = "raise"
                                 \/ (download = "ok" /\ summary = "raise")
                       upd == UpdateEntry(None, "blocks", None, FALSE, out)
                       appended == ~raised /\ download = "ok" /\ upd.ret
                   IN  /\ shared' = IF appended
                                    THEN [shared EXCEPT ![e] = AppendBlocks(@, p)]
                                    ELSE shared
                       /\ writes' = IF appended
                                    THEN Append(writes, [by |-> p, entry |-> e])
                                    ELSE writes
                       /\ IF raised /\ HandlerRaises(entry)
                          THEN /\ inv' = [inv EXCEPT ![p].pc = "escaped",
                                                     ![p].failed = TRUE]
                               /\ running' = 0
                               /\ sleepers' = sleepers
                          ELSE IF raised \/ download = "status_404"
                          THEN /\ inv' = [inv EXCEPT ![p].idx = @ + 1,
                                                     ![p].failed = TRUE]
                               /\ UNCHANGED <<running, sleepers>>
                          ELSE /\ inv' = [inv EXCEPT ![p].pc = "sleep",
                                                     ![p].failed = @ \/ ~upd.ret]
                               /\ running' = 0
                               /\ sleepers' = Append(sleepers, p)
    /\ UNCHANGED <<cworkflow, centries>>
    /\ UNCHANGED <<scrapeVars, listVars, sumVars, updVars, wfVars, detVars>>

\* The sleep of invocation p is over and the event loop is idle.  Both
\* invocations sleep for the same time, so the one that slept first resumes
\* first.
Resume(p) ==
    /\ running = 0
    /\ sleepers # <<>>
    /\ Head(sleepers) = p
    /\ inv' = [inv EXCEPT ![p].pc = "loop", ![p].idx = @ + 1]
    /\ running' = p
    /\ sleepers' = Tail(sleepers)
    /\ UNCHANGED <<cworkflow, centries, shared, writes>>
    /\ UNCHANGED <<scrapeVars, listVars, sumVars, updVars, wfVars, detVars>>

\* The loop of invocation p is over: it returns.
Finish(p) ==
    /\ running = p
    /\ inv[p].pc = "loop"
    /\ inv[p].idx > Len(inv[p].entries)
    /\ inv' = [inv EXCEPT ![p].pc = "done"]
    /\ running' = 0
    /\ UNCHANGED <<cworkflow, centries, shared, sleepers, writes>>
    /\ UNCHANGED <<scrapeVars, listVars, sumVars, updVars, wfVars, detVars>>

NextConcurrent ==
    \E p \in Invocations :
        \/ Arrive(p)
        \/ IterateHarvest(p)
        \/ IterateSummarize(p)
        \/ Resume(p)
        \/ Finish(p)

SpecConcurrent == InitConcurrent /\ [][NextConcurrent]_vars

\* The invocations that wrote entry e, in the order of their writes.
RECURSIVE WritersOf(_, _)
WritersOf(log, e) ==
    IF log = <<>> THEN <<>>
    ELSE (IF Head(log).entry = e THEN <<Head(log).by>> ELSE <<>>)
         \o WritersOf(Tail(log), e)

\* The entries of a listing the workflow does not skip.
Eligible(entry) ==
    IF cworkflow = "summarize" THEN entry.markdown # "none"
    ELSE ~NoName(entry) /\ entry.url # "none"

\* C14: nothing in the workflows keeps two invocations from processing the
\* same entry: every successful write takes effect whatever the other
\* invocation wrote (an entry's blocks are the appends of both in order, its
\* attachment is that of the last writer), and an invocation that returned
\* without a failed call has written every entry of its listing it does not
\* skip.
C14_NothingPreventsRace ==
    /\ \A e \in 1..Len(shared) :
          LET w == WritersOf(writes, e)
          IN  /\ cworkflow = "summarize" => shared[e].blocks = w
              /\ cworkflow = "harvest" =>
                    shared[e].attachment = IF w = <<>> THEN 0 ELSE w[Len(w)]
    /\ \A p \in Invocations :
          (inv[p].pc = "done" /\ ~inv[p].failed) =>
              \A e \in 1..Len(inv[p].entries) :
                  Eligible(inv[p].entries[e]) =>
                      \E n \in 1..Len(writes) : writes[n] = [by |-> p, entry |-> e]

\* Two Summarize invocations are both suspended in their delay, the second
\* having started while the first slept, and the blocks of the first entry
\* have been appended by both.
C14_Witness ==
    /\ cworkflow = "summarize"
    /\ inv[1].pc = "sleep"
    /\ inv[2].pc = "sleep"
    /\ shared[1].blocks = <<1, 2>>

\* C15: list_all asks for the first page once, then issues a further query
\* exactly when the last response carried a next cursor, passing that cursor,
\* and stops at the first response without one; against a finite chain of
\* pages it issues at most one query per page and it terminates.
C15_FollowsCursorsAndStops ==
    /\ [](LET n == Len(query_log)
          IN  /\ n >= 1 => query_log[1] = NoCursor
              /\ \A j \in 2..n :
                    /\ query_log[j] = QueryResponse(query_log[j - 1]).next_cursor
                    /\ query_log[j] # NoCursor
              /\ (lpc = "loop" /\ n >= 1) =>
                    (has_more <=> QueryResponse(query_log[n]).next_cursor # NoCursor)
              /\ (lpc = "done" /\ ~list_failed) =>
                    QueryResponse(query_log[n]).next_cursor = NoCursor
              /\ n <= Len(db_pages))
    /\ <>(lpc = "done")

\* list_all has followed two cursors through a chain of three pages and
\* returned after the response without one.
C15_Witness ==
    /\ lpc = "done"
    /\ ~list_failed
    /\ query_log = <<NoCursor, <<2>>, <<3>>>>

\* The number of leading paragraphs of the longest whole-paragraph prefix
\* that is at most `limit` long.
LongestPrefix(paragraphs, limit) ==
    Max({n \in 0..Len(paragraphs) :
            n = 0 \/ Len(JoinParagraphs(paragraphs, n)) <= limit})

\* C16 as stated: for a content longer than the ceiling, the text sent is
\* (up to the stripping of whitespace) the longest whole-paragraph prefix of
\* the content that is at most the ceiling long.
C16_LongestPrefixWithinCeiling ==
    (spc # "start" /\ TooLong) =>
        LET paragraphs == Split(relevant_page_content)
        IN  sent_content =
                Strip(JoinParagraphs(paragraphs, LongestPrefix(paragraphs, Ceiling)))

\* C16 (amended): every kept paragraph is counted with the two-character
\* separator that follows it, so for a content longer than the ceiling the
\* text sent is (up to the stripping of whitespace) the longest
\* whole-paragraph prefix that is at most the ceiling less two long.
C16_LongestPrefixWithSeparator ==
    (spc # "start" /\ TooLong) =>
        LET paragraphs == Split(relevant_page_content)
        IN  sent_content =
                Strip(JoinParagraphs(paragraphs,
                                     LongestPrefix(paragraphs, Ceiling - 2)))

\* A content longer than the ceiling was cut before a paragraph that would
\* have kept the text within the ceiling, but not with its separator.
C16_Witness ==
    /\ spc = "prepared"
    /\ TooLong
    /\ LET paragraphs == Split(relevant_page_content)
           kept == LongestPrefix(paragraphs, Ceiling - 2)
       IN  /\ kept >= 1
           /\ kept < Len(paragraphs)
           /\ Len(JoinParagraphs(paragraphs, kept + 1)) <= Ceiling
           /\ sent_content = JoinParagraphs(paragraphs, kept)

-----------------------------------------------------------------------------
(* scrape_university_details *)

\* The website entry of a detail page: the dt labelled Website, its dd
\* sibling, the link inside it and the link's href.
WebsiteEntries ==
    {[dt |-> FALSE, dd |-> FALSE, a |-> FALSE, href |-> None],
     [dt |-> TRUE, dd |-> FALSE, a |-> FALSE, href |-> None],
     [dt |-> TRUE, dd |-> TRUE, a |-> FALSE, href |-> None],
     [dt |-> TRUE, dd |-> TRUE, a |-> TRUE, href |-> None],
     [dt |-> TRUE, dd |-> TRUE, a |-> TRUE, href |-> "https://site"],
     [dt |-> TRUE, dd |-> TRUE, a |-> TRUE,
      href |-> "https://site?from=edurank.org"]}

\* Body rows as the texts of their cells: no cell, a Graduate row with one
\* value, Graduate rows with both values, a row of another program.
TuitionRows ==
    {<<>>,
     <<"Graduate", "$10">>,
     <<"Graduate", "$10", "$20">>,
     <<"Graduate (online)", "$30", "$40">>,
     <<"Undergraduate", "$50", "$60">>}

\* The table of class table-responsive-md: absent, without a tbody, or with
\* its body rows.
TuitionTables ==
    {[present |-> FALSE, tbody |-> FALSE, rows |-> <<>>],
     [present |-> TRUE, tbody |-> FALSE, rows |-> <<>>]}
    \cup
    {[present |-> TRUE, tbody |-> TRUE, rows |-> rows] :
        rows \in UNION {[1..n -> TuitionRows] : n \in 0..MaxRows}}

\* href.replace('?from=edurank.org', '')
WithoutReferrer(href) ==
    IF href = "https://site?from=edurank.org" THEN "https://site" ELSE href

\* "Graduate" in program_name
NamesGraduate(program_name) == program_name \in {"Graduate", "Graduate (online)"}

\* `for row in rows`, from tuition_data as it stands: a row whose first cell
\* names Graduate and that has more than two cells sets both values.
RECURSIVE TuitionData(_, _)
TuitionData(rows, tuition_data) ==
    IF rows = <<>> THEN tuition_data
    ELSE LET row == Head(rows)
             program_name == IF Len(row) > 0 THEN row[1] ELSE None
             after == IF program_name # None /\ NamesGraduate(program_name)
                         /\ Len(row) > 2
                      THEN Update(tuition_data,
                                  [key \in {"domestic_tuition", "international_tuition"}
                                     |-> IF key = "domestic_tuition"
                                         THEN row[2] ELSE row[3]])
                      ELSE tuition_data
         IN  TuitionData(Tail(rows), after)

\* The body of scrape_university_details: the dictionary it returns and the
\* except clause that produced it, if any.  find_next_sibling('dd'),
\* get('href') and find('tbody') give None when the node is missing, and the
\* method called on None raises AttributeError.
ScrapeUniversityDetails(page) ==
    LET website == page.website
        table == page.table
        url == IF website.dt /\ website.a
               THEN "url" :> WithoutReferrer(website.href)
               ELSE EmptyDict
    IN  IF FetchRaises(page.status)
        THEN [value |-> EmptyDict, caught |-> "RequestException"]
        ELSE IF website.dt /\ (~website.dd \/ (website.a /\ website.href = None))
        THEN [value |-> EmptyDict, caught |-> "AttributeError"]
        ELSE IF table.present /\ ~table.tbody
        THEN [value |-> EmptyDict, caught |-> "AttributeError"]
        ELSE IF table.present
        THEN [value |-> Update(url, "tuition" :> TuitionData(table.rows, EmptyDict)),
              caught |-> "none"]
        ELSE [value |-> url, caught |-> "none"]

InitDetails ==
    /\ ScrapeIdle
    /\ ListIdle
    /\ SummarizerIdle
    /\ UpdateIdle
    /\ WorkflowIdle
    /\ ConcurrentIdle
    /\ detail_page \in [status : {"ok", "network_error", "http_error"},
                        website : WebsiteEntries, table : TuitionTables]
    /\ detail_result = [value |-> EmptyDict, caught |-> "none"]
    /\ dpc = "call"

\* One call of scrape_university_details.
DetailCall ==
    /\ dpc = "call"
    /\ detail_result' = ScrapeUniversityDetails(detail_page)
    /\ dpc' = "done"
    /\ UNCHANGED detail_page
    /\ UNCHANGED <<scrapeVars, listVars, sumVars, updVars, wfVars, conVars>>

NextDetails == DetailCall

SpecDetails == InitDetails /\ [][NextDetails]_vars

\* The page's website entry is whole: label, value node, link and href.
WebsiteIntact == detail_page.website.a /\ detail_page.website.href # None

\* The page's tuition table is whole: the table and its body.
TableIntact == detail_page.table.present /\ detail_page.table.tbody

\* C17: once the detail page was fetched, a structural mismatch on one field
\* leaves only that field out: the url is returned whenever the website entry
\* is whole, the tuition whenever the table has its body, and the result is
\* empty only when the request failed (or the page has neither field).
C17_MismatchLosesOnlyItsField ==
    (dpc = "done" /\ ~FetchRaises(detail_page.status)) =>
        /\ WebsiteIntact => "url" \in DOMAIN detail_result.value
        /\ TableIntact => "tuition" \in DOMAIN detail_result.value
        /\ detail_result.value = EmptyDict => (~WebsiteIntact /\ ~TableIntact)

\* The body rows that set the tuition values: first cell naming Graduate,
\* more than two cells.
GraduateRows ==
    {n \in 1..Len(detail_page.table.rows) :
        /\ Len(detail_page.table.rows[n]) > 2
        /\ NamesGraduate(detail_page.table.rows[n][1])}

\* C18: when several body rows match the Graduate filter, each with more than
\* two cells, the tuition values returned are those of the first such row.
C18_FirstGraduateRow ==
    (dpc = "done" /\ detail_result.caught = "none" /\ TableIntact
       /\ Cardinality(GraduateRows) >= 2) =>
        LET first == detail_page.table.rows[Min(GraduateRows)]
        IN  /\ detail_result.value["tuition"]["domestic_tuition"] = first[2]
            /\ detail_result.value["tuition"]["international_tuition"] = first[3]

-----------------------------------------------------------------------------
(* The three workflows from their call of get_all_university_entries *)

\* Stores of at most MaxEntries entries, as chains of pages.
ListedStores == {pages \in Stores : Len(Flatten(pages)) <= MaxEntries}

\* The entry a handle stands for: one every workflow processes (odd handles)
\* or one without url and file.
StoredEntry(handle) ==
    IF handle % 2 = 1
    THEN [title |-> "named", url |-> "http", markdown |-> "file"]
    ELSE [title |-> "named", url |-> "none", markdown |-> "none"]

\* A workflow is entered and is about to list the store.
InitListedWorkflows ==
    /\ ScrapeIdle
    /\ SummarizerIdle
    /\ UpdateIdle
    /\ DetailIdle
    /\ ConcurrentIdle
    /\ db_pages \in ListedStores
    /\ lpc = "loop"
    /\ all_results = <<>>
    /\ has_more = TRUE
    /\ start_cursor = NoCursor
    /\ query_log = <<>>
    /\ list_failed = FALSE
    /\ list_result = <<>>
    /\ workflow \in {"resolve", "harvest", "summarize"}
    /\ all_entries = <<>>
    /\ wpc = "listing"
    /\ idx = 0
    /\ remote = <<>>
    /\ artifacts = {}
    /\ created = {}
    /\ clock = 0
    /\ wlog = <<>>
    /\ status = None

\* all_entries = get_all_university_entries(): the workflow gets what the
\* call returned.
WorkflowList ==
    /\ wpc = "listing"
    /\ lpc = "done"
    /\ all_entries' = [n \in 1..Len(list_result) |-> StoredEntry(list_result[n])]
    /\ remote' = [n \in 1..Len(list_result) |->
                    [website |-> StoredEntry(list_result[n]).url,
                     markdown |-> StoredEntry(list_result[n]).markdown,
                     blocks |-> 0]]
    /\ wpc' = "start"
    /\ UNCHANGED <<workflow, idx, artifacts, created, clock, wlog, status>>
    /\ UNCHANGED <<scrapeVars, listVars, sumVars, updVars, detVars, conVars>>

NextListedWorkflows == NextList \/ WorkflowList \/ NextWorkflows

SpecListedWorkflows == InitListedWorkflows /\ [][NextListedWorkflows]_vars

\* C19: when a query of list_all fails, the call returns the empty sequence
\* whatever pages it had fetched, and the workflow that called it returns
\* the status "complete" without processing an entry or writing to the store,
\* as it does when the store is empty.
C19_FailedListIsEmptyStore ==
    /\ (lpc = "done" /\ list_failed) => list_result = <<>>
    /\ (list_failed /\ wpc # "listing") =>
          /\ all_entries = <<>>
          /\ wpc \in {"start", "done"}
          /\ wlog = <<>>
          /\ remote = <<>>
          /\ artifacts = {}
          /\ wpc = "done" => status = "complete"
    /\ (~list_failed /\ Flatten(db_pages) = <<>> /\ wpc = "done") =>
          (status = "complete" /\ wlog = <<>>)

\* The query for the second page failed after a first page with entries, and
\* the workflow returned "complete".
C19_Witness ==
    /\ list_failed
    /\ Len(query_log) >= 2
    /\ all_results # <<>>
    /\ list_result = <<>>
    /\ wpc = "done"
    /\ status = "complete"

=============================================================================
